---- MODULE Spec2Model ----
(***************************************************************************)
(* SEIRS epidemic solver (seirs.js): input validation, rate constants,     *)
(* the transition model, the RK4 integrator and the driving loop of solve, *)
(* in its class-based form and in its inline form.                         *)
(*                                                                         *)
(* Numbers.  The program computes with IEEE doubles.  Here a real number v *)
(* is the integer v * Unit (fixed point, resolution 1/Unit); a product or  *)
(* quotient of two such numbers is rescaled and rounded down.  Counts (n,  *)
(* ix, array lengths) and the integral program constants (365, 100, 2, 6)  *)
(* are plain integers.  Infinity and NaN are outside this number domain.   *)
(***************************************************************************)
EXTENDS Integers, Sequences, FiniteSets, TLC

VARIABLES
    version,   \* which solve runs: "class" (lines 143-207) or "inline" (486-610)
    args,      \* the arguments of the call
    pc,        \* position of the call
    state,     \* the four Float64Arrays s, e, i, r
    params,    \* the rate constants alpha, gamma, omega, mu, sigma, beta
    ix,        \* loop index of the integration loop
    x,         \* the array [s, e, i, r] handed to the RK4 step
    k1, k2, k3, k4,   \* the four stage derivatives of the running RK4 step
    new,       \* [s_new, e_new, i_new, r_new], what the RK4 step returned
    error,     \* message of the Error thrown, "" when none
    output,    \* the value returned, <<>> when none
    nDeriv,    \* derivative evaluations performed so far in this call
    nSteps,    \* RK4 steps completed so far in this call
    results,   \* the calls that have ended before this one, oldest first
    other,     \* the local variables of a second call in flight, NoCall when none
    plot,      \* the plot object of the page: params, size, scales, axes, series
    ctrls      \* the form controls of the page, by id

vars == <<version, args, pc, state, params, ix, x, k1, k2, k3, k4, new,
          error, output, nDeriv, nSteps, results, other, plot, ctrls>>

-----------------------------------------------------------------------------
(* Bounds of the model *)

Unit == 10000   \* fixed-point resolution: the real 1.0
MaxN == 3       \* largest number of simulated days

-----------------------------------------------------------------------------
(* Fixed-point arithmetic standing for the double operations * and / *)

Mul(a, b) == (a * b) \div Unit
Div(a, b) == (a * Unit) \div b

-----------------------------------------------------------------------------
(* Constants, seirs.js 7-15 *)

DAYS_PER_YEAR == 365
PERCENTAGE_SCALE == 100
WEIGHT_MIDDLE == 2
WEIGHT_DIVISOR == 6
HALF_STEP == Unit \div 2

-----------------------------------------------------------------------------
(* ParameterValidator, seirs.js 21-39.  Each operator yields the message  *)
(* of the Error it throws, or "" when it returns normally.                 *)

NumberToString(v) == ToString(v \div Unit)

validateRange(value, min, max, name) ==
    IF value < min \/ value > max
    THEN name \o " must be between " \o NumberToString(min) \o " and " \o NumberToString(max)
    ELSE ""

\* Variant: zero slips through (value < 0 tested instead of value <= 0).
validatePositiveStrict(value, name) ==
    IF value < 0 THEN name \o " must be positive" ELSE ""

validatePositive(value, name) ==
    IF value <= 0 THEN name \o " must be positive" ELSE ""

\* Variant: the check is missing.
validateNonNegativeMissing(value, name) == ""

validateNonNegative(value, name) ==
    IF value < 0 THEN name \o " must be non-negative" ELSE ""

\* The first Error thrown by a sequence of statements, "" when none throws.
RECURSIVE FirstThrow(_)
FirstThrow(msgs) ==
    IF msgs = <<>> THEN ""
    ELSE IF Head(msgs) # "" THEN Head(msgs)
    ELSE FirstThrow(Tail(msgs))

\* solve, class-based: the nine validation calls in program order.
solveValidation(a) ==
    FirstThrow(<<
        validatePositive(a.n, "Number of time steps"),
        validateRange(a.S0, 0, Unit, "Initial susceptibility"),
        validatePositive(a.R0, "R0"),
        validatePositive(a.infectious_period, "Infectious period"),
        validatePositive(a.latent_period, "Latent period"),
        validatePositive(a.immunity_duration, "Immunity duration"),
        validatePositive(a.life_expectancy, "Life expectancy"),
        validateNonNegative(a.death_onset, "Death onset"),
        validateRange(a.vaccination_rate, 0, Unit, "Vaccination rate") >>)

\* solve, inline: the nine if-throw statements in program order.
inlineValidation(a) ==
    FirstThrow(<<
        IF a.n <= 0 THEN "Number of time steps must be positive" ELSE "",
        IF a.S0 < 0 \/ a.S0 > Unit THEN "Initial susceptibility must be between 0 and 1" ELSE "",
        IF a.R0 <= 0 THEN "R0 must be positive" ELSE "",
        IF a.infectious_period <= 0 THEN "Infectious period must be positive" ELSE "",
        IF a.latent_period <= 0 THEN "Latent period must be positive" ELSE "",
        IF a.immunity_duration <= 0 THEN "Immunity duration must be positive" ELSE "",
        IF a.life_expectancy <= 0 THEN "Life expectancy must be positive" ELSE "",
        IF a.death_onset < 0 THEN "Death onset must be positive" ELSE "",
        IF a.vaccination_rate < 0 \/ a.vaccination_rate > Unit
            THEN "Vaccination rate must be between 0 and 1" ELSE "" >>)

-----------------------------------------------------------------------------
(* Utility functions, seirs.js 45-52 *)

Max(a, b) == IF a >= b THEN a ELSE b
Min(a, b) == IF a <= b THEN a ELSE b

\* Variant: the lower bound is missing.
clampUpperOnly(value) == Min(Unit, value)

clamp(value) == Max(0, Min(Unit, value))

\* Variant: days counted from 1.
formatDataForPlotOneBased(array) ==
    [index \in DOMAIN array |-> [x |-> index + 1, y |-> PERCENTAGE_SCALE * array[index]]]

formatDataForPlot(array) ==
    [index \in DOMAIN array |-> [x |-> index, y |-> PERCENTAGE_SCALE * array[index]]]

-----------------------------------------------------------------------------
(* SEIRParameters, seirs.js 58-69 *)

\* Variant: a constructor that checks its inputs and yields no constants for
\* inputs outside their bounds.
SEIRParametersGuarded(config) ==
    IF /\ config.R0 > 0 /\ config.infectious_period > 0 /\ config.latent_period > 0
       /\ config.immunity_duration > 0 /\ config.life_expectancy > 0
       /\ config.death_onset >= 0
    THEN LET alpha == IF config.death_onset > 0 THEN Div(Unit, config.death_onset) ELSE 0
             gamma == Div(Unit, config.infectious_period)
             omega == Div(Unit, DAYS_PER_YEAR * config.immunity_duration)
             mu    == Div(Unit, DAYS_PER_YEAR * config.life_expectancy)
             sigma == Div(Unit, config.latent_period)
         IN  [alpha |-> alpha, gamma |-> gamma, omega |-> omega, mu |-> mu,
              sigma |-> sigma,
              beta  |-> Div(Mul(Mul(config.R0, gamma + mu + alpha), sigma + mu), sigma)]
    ELSE [alpha |-> 0, gamma |-> 0, omega |-> 0, mu |-> 0, sigma |-> 0, beta |-> 0]

\* Variant: a death onset of 0 is read as death within one day (alpha = 1).
SEIRParametersAlphaSentinel(config) ==
    LET alpha == IF config.death_onset > 0 THEN Div(Unit, config.death_onset) ELSE Unit
        gamma == Div(Unit, config.infectious_period)
        omega == Div(Unit, DAYS_PER_YEAR * config.immunity_duration)
        mu    == Div(Unit, DAYS_PER_YEAR * config.life_expectancy)
        sigma == Div(Unit, config.latent_period)
    IN  [alpha |-> alpha, gamma |-> gamma, omega |-> omega, mu |-> mu, sigma |-> sigma,
         beta  |-> Div(Mul(Mul(config.R0, gamma + mu + alpha), sigma + mu), sigma)]

\* Variant: beta from the textbook relation R0 = beta / gamma.
SEIRParametersSimpleBeta(config) ==
    LET alpha == IF config.death_onset > 0 THEN Div(Unit, config.death_onset) ELSE 0
        gamma == Div(Unit, config.infectious_period)
        omega == Div(Unit, DAYS_PER_YEAR * config.immunity_duration)
        mu    == Div(Unit, DAYS_PER_YEAR * config.life_expectancy)
        sigma == Div(Unit, config.latent_period)
    IN  [alpha |-> alpha, gamma |-> gamma, omega |-> omega, mu |-> mu, sigma |-> sigma,
         beta  |-> Mul(config.R0, gamma)]

SEIRParameters(config) ==
    LET alpha == IF config.death_onset > 0 THEN Div(Unit, config.death_onset) ELSE 0
        gamma == Div(Unit, config.infectious_period)
        omega == Div(Unit, DAYS_PER_YEAR * config.immunity_duration)
        mu    == Div(Unit, DAYS_PER_YEAR * config.life_expectancy)
        sigma == Div(Unit, config.latent_period)
    IN  [alpha |-> alpha, gamma |-> gamma, omega |-> omega, mu |-> mu, sigma |-> sigma,
         beta  |-> Div(Mul(Mul(config.R0, gamma + mu + alpha), sigma + mu), sigma)]

\* The inline solve computes the same six constants in place, seirs.js 505-511.
inlineParameters(a) ==
    LET alpha == IF a.death_onset > 0 THEN Div(Unit, a.death_onset) ELSE 0
        gamma == Div(Unit, a.infectious_period)
        omega == Div(Unit, 365 * a.immunity_duration)
        mu    == Div(Unit, 365 * a.life_expectancy)
        sigma == Div(Unit, a.latent_period)
        beta  == Div(Mul(Mul(a.R0, gamma + mu + alpha), sigma + mu), sigma)
    IN  [alpha |-> alpha, gamma |-> gamma, omega |-> omega, mu |-> mu, sigma |-> sigma,
         beta  |-> beta]

-----------------------------------------------------------------------------
(* SEIRTransitions.calculateDerivatives, seirs.js 77-92 *)

\* Variant: the two birth terms are exchanged (unvaccinated births enter r).
calculateDerivativesBirthsSwapped(par, p, s, e, i, r) ==
    LET se == Mul(Mul(par.beta, s), i)
        ei == Mul(par.sigma, e)
        ir == Mul(par.gamma, i)
        rs == Mul(par.omega, r)
    IN  [ds |-> (0 - se) + rs - Mul(par.mu, s) + Mul(par.mu, p),
         de |-> se - ei - Mul(par.mu, e),
         di |-> ei - ir - Mul(par.mu + par.alpha, i),
         dr |-> ir - rs - Mul(par.mu, r) + Mul(par.mu, Unit - p)]

\* Variant: the infectious compartment loses nothing to disease death.
calculateDerivativesNoDiseaseDeath(par, p, s, e, i, r) ==
    LET se == Mul(Mul(par.beta, s), i)
        ei == Mul(par.sigma, e)
        ir == Mul(par.gamma, i)
        rs == Mul(par.omega, r)
    IN  [ds |-> (0 - se) + rs - Mul(par.mu, s) + Mul(par.mu, Unit - p),
         de |-> se - ei - Mul(par.mu, e),
         di |-> ei - ir - Mul(par.mu, i),
         dr |-> ir - rs - Mul(par.mu, r) + Mul(par.mu, p)]

calculateDerivatives(par, p, s, e, i, r) ==
    LET se == Mul(Mul(par.beta, s), i)
        ei == Mul(par.sigma, e)
        ir == Mul(par.gamma, i)
        rs == Mul(par.omega, r)
    IN  [ds |-> (0 - se) + rs - Mul(par.mu, s) + Mul(par.mu, Unit - p),
         de |-> se - ei - Mul(par.mu, e),
         di |-> ei - ir - Mul(par.mu + par.alpha, i),
         dr |-> ir - rs - Mul(par.mu, r) + Mul(par.mu, p)]

(* The flow closures of the inline solve, seirs.js 520-529 *)

s_to_e(par, s, i) == Mul(Mul(par.beta, s), i)
e_to_i(par, e) == Mul(par.sigma, e)
i_to_r(par, i) == Mul(par.gamma, i)
r_to_s(par, r) == Mul(par.omega, r)
s_death(par, s) == Mul(par.mu, s)
e_death(par, e) == Mul(par.mu, e)
i_death(par, i) == Mul(par.mu + par.alpha, i)
r_death(par, r) == Mul(par.mu, r)
birth_susceptible(par, p) == Mul(par.mu, Unit - p)
birth_vaccinated(par, p) == Mul(par.mu, p)

\* One stage (k_s, k_e, k_i, k_r) of rk4_step, seirs.js 536-564.
inlineDerivatives(par, p, s, e, i, r) ==
    [ds |-> (0 - s_to_e(par, s, i)) + r_to_s(par, r) - s_death(par, s) + birth_susceptible(par, p),
     de |-> s_to_e(par, s, i) - e_to_i(par, e) - e_death(par, e),
     di |-> e_to_i(par, e) - i_to_r(par, i) - i_death(par, i),
     dr |-> i_to_r(par, i) - r_to_s(par, r) - r_death(par, r) + birth_vaccinated(par, p)]

\* The derivative evaluation of the version that runs.
Derivatives(v, par, p, y) ==
    IF v = "class" THEN calculateDerivatives(par, p, y[1], y[2], y[3], y[4])
    ELSE inlineDerivatives(par, p, y[1], y[2], y[3], y[4])

-----------------------------------------------------------------------------
(* RK4Integrator.step, seirs.js 100-136, and rk4_step, seirs.js 532-573 *)

\* Variant: each stored day advances the model by half a day.
timeStepHalfDay == Unit \div 2

timeStep == Unit   \* const timeStep = 1.0 (187), const h = 1.0 (577)

\* The argument of stage k2 and k3: y + HALF_STEP * h * k, componentwise.
halfStage(y, h, k) ==
    << y[1] + Mul(Mul(HALF_STEP, h), k.ds), y[2] + Mul(Mul(HALF_STEP, h), k.de),
       y[3] + Mul(Mul(HALF_STEP, h), k.di), y[4] + Mul(Mul(HALF_STEP, h), k.dr) >>

\* The argument of stage k4: y + h * k, componentwise.
fullStage(y, h, k) ==
    << y[1] + Mul(h, k.ds), y[2] + Mul(h, k.de), y[3] + Mul(h, k.di), y[4] + Mul(h, k.dr) >>

weightedSum(h, a, b, c, d) ==
    Mul(h \div WEIGHT_DIVISOR, a + WEIGHT_MIDDLE * b + WEIGHT_MIDDLE * c + d)

\* The array returned by the step.
stepResult(y, h, a, b, c, d) ==
    << y[1] + weightedSum(h, a.ds, b.ds, c.ds, d.ds),
       y[2] + weightedSum(h, a.de, b.de, c.de, d.de),
       y[3] + weightedSum(h, a.di, b.di, c.di, d.di),
       y[4] + weightedSum(h, a.dr, b.dr, c.dr, d.dr) >>

\* Variant: the midpoint stages are evaluated a full step ahead.
stepFullMidpoints(v, par, p, y, h) ==
    LET a == Derivatives(v, par, p, y)
        b == Derivatives(v, par, p, fullStage(y, h, a))
        c == Derivatives(v, par, p, fullStage(y, h, b))
        d == Derivatives(v, par, p, fullStage(y, h, c))
    IN  stepResult(y, h, a, b, c, d)

\* step(state, h) as a whole, seirs.js 100-136 (532-573 inline).
step(v, par, p, y, h) ==
    LET a == Derivatives(v, par, p, y)
        b == Derivatives(v, par, p, halfStage(y, h, a))
        c == Derivatives(v, par, p, halfStage(y, h, b))
        d == Derivatives(v, par, p, fullStage(y, h, c))
    IN  stepResult(y, h, a, b, c, d)

-----------------------------------------------------------------------------
(* Pieces of solve *)

\* Variant: vaccinated individuals are not taken out of the susceptible pool.
initialConditionsIgnoringVaccination(a) ==
    << a.S0, Unit - a.S0, 0, a.vaccination_rate >>

\* Variant: the day-0 susceptible value is clamped like the later days.
initialConditionsClamped(a) ==
    << clamp(a.S0 - a.vaccination_rate), Unit - a.S0, 0, a.vaccination_rate >>

\* The day-0 values [s, e, i, r], seirs.js 174-177 and 514-517.
initialConditions(a) ==
    << a.S0 - a.vaccination_rate, Unit - a.S0, 0, a.vaccination_rate >>

\* Variant: one iteration too many.
loopConditionInclusive(i, n) == i <= n

\* The loop condition ix < n, seirs.js 188 and 576.
loopCondition(i, n) == i < n

-----------------------------------------------------------------------------
(* Output of the inline solve, seirs.js 586-609 *)

inlineOutput(st, n) ==
    LET scale_by == 100
        data(array) == [k \in 0..n |-> [x |-> k, y |-> scale_by * array[k]]]
    IN  [s |-> data(st.s), e |-> data(st.e), i |-> data(st.i), r |-> data(st.r),
         ymax |-> scale_by]

-----------------------------------------------------------------------------
(* Inputs of the model *)

Half == Unit \div 2

RangeInputs == {0 - Half, 0, Half, Unit, Unit + Half}
Percent99 == (99 * Unit) \div 100
PositiveInputs(valid) == {0 - Unit, 0} \cup valid

Inputs ==
    [ n : (0 - 1)..MaxN,
      S0 : RangeInputs \cup {Percent99},
      R0 : PositiveInputs({Unit, 3 * Unit}),
      latent_period : {0, Unit},
      infectious_period : PositiveInputs({2 * Unit}),
      death_onset : {0 - Unit, 0, 4 * Unit},
      immunity_duration : {0, Unit},
      life_expectancy : {0, Unit},
      vaccination_rate : RangeInputs ]

NoArray == [k \in {} |-> 0]
NoState == [s |-> NoArray, e |-> NoArray, i |-> NoArray, r |-> NoArray]
NoParams == [alpha |-> 0, gamma |-> 0, omega |-> 0, mu |-> 0, sigma |-> 0, beta |-> 0]
NoDeriv == [ds |-> 0, de |-> 0, di |-> 0, dr |-> 0]
NoCall == [pc |-> "none"]

\* No page: the values of plot and ctrls while solve is studied on its own.
NoPlot == [phase |-> "none"]
NoControls == <<>>

Init ==
    /\ version \in {"class", "inline"}
    /\ args \in Inputs
    /\ pc = "validate"
    /\ state = NoState
    /\ params = NoParams
    /\ ix = 0
    /\ x = <<>>
    /\ k1 = NoDeriv /\ k2 = NoDeriv /\ k3 = NoDeriv /\ k4 = NoDeriv
    /\ new = <<>>
    /\ error = ""
    /\ output = <<>>
    /\ nDeriv = 0
    /\ nSteps = 0
    /\ results = <<>>
    /\ plot = NoPlot
    /\ ctrls = NoControls
    /\ other = NoCall

-----------------------------------------------------------------------------
(* solve, step by step: seirs.js 143-207 (class) and 486-610 (inline) *)

\* 154-163 / 490-498
Validate ==
    /\ pc = "validate"
    /\ LET msg == IF version = "class" THEN solveValidation(args) ELSE inlineValidation(args)
       IN  /\ error' = msg
           /\ pc' = IF msg # "" THEN "threw" ELSE "alloc"
    /\ UNCHANGED <<version, args, state, params, ix, x, k1, k2, k3, k4, new, output,
                   nDeriv, nSteps>>
    /\ UNCHANGED <<results, other, plot, ctrls>>

\* Variant: the arrays are one element short (length n).  A typed array
\* ignores a write past its end, so this variant raises nothing either.
AllocateShort ==
    /\ pc = "alloc"
    /\ LET zeros == [k \in 0..(args.n - 1) |-> 0]
       IN  state' = [s |-> zeros, e |-> zeros, i |-> zeros, r |-> zeros]
    /\ pc' = IF version = "class" THEN "init" ELSE "derive"
    /\ UNCHANGED <<version, args, params, ix, x, k1, k2, k3, k4, new, error, output,
                   nDeriv, nSteps>>
    /\ UNCHANGED <<results, other, plot, ctrls>>

\* 166-171 / 499-502: four zero-filled Float64Arrays of length n + 1
Allocate ==
    /\ pc = "alloc"
    /\ LET zeros == [k \in 0..args.n |-> 0]
       IN  state' = [s |-> zeros, e |-> zeros, i |-> zeros, r |-> zeros]
    /\ pc' = IF version = "class" THEN "init" ELSE "derive"
    /\ UNCHANGED <<version, args, params, ix, x, k1, k2, k3, k4, new, error, output,
                   nDeriv, nSteps>>
    /\ UNCHANGED <<results, other, plot, ctrls>>

\* 174-177 / 514-517
SetInitialConditions ==
    /\ pc = "init"
    /\ state' = [s |-> [state.s EXCEPT ![0] = initialConditions(args)[1]],
                 e |-> [state.e EXCEPT ![0] = initialConditions(args)[2]],
                 i |-> [state.i EXCEPT ![0] = initialConditions(args)[3]],
                 r |-> [state.r EXCEPT ![0] = initialConditions(args)[4]]]
    /\ pc' = IF version = "class" THEN "derive" ELSE "loop"
    /\ UNCHANGED <<version, args, params, ix, x, k1, k2, k3, k4, new, error, output,
                   nDeriv, nSteps>>
    /\ UNCHANGED <<results, other, plot, ctrls>>

\* 180-184 / 505-511
Setup ==
    /\ pc = "derive"
    /\ params' = IF version = "class" THEN SEIRParameters(args) ELSE inlineParameters(args)
    /\ pc' = IF version = "class" THEN "loop" ELSE "init"
    /\ UNCHANGED <<version, args, state, ix, x, k1, k2, k3, k4, new, error, output,
                   nDeriv, nSteps>>
    /\ UNCHANGED <<results, other, plot, ctrls>>

\* 188-192 / 576-578: loop test, and the array literal passed to the step
LoopEnter ==
    /\ pc = "loop"
    /\ loopCondition(ix, args.n)
    /\ x' = <<state.s[ix], state.e[ix], state.i[ix], state.r[ix]>>
    /\ pc' = "k1"
    /\ UNCHANGED <<version, args, state, params, ix, k1, k2, k3, k4, new, error, output,
                   nDeriv, nSteps>>
    /\ UNCHANGED <<results, other, plot, ctrls>>

\* 104 / 536-543
StageK1 ==
    /\ pc = "k1"
    /\ k1' = Derivatives(version, params, args.vaccination_rate, x)
    /\ nDeriv' = nDeriv + 1
    /\ pc' = "k2"
    /\ UNCHANGED <<version, args, state, params, ix, x, k2, k3, k4, new, error, output,
                   nSteps>>
    /\ UNCHANGED <<results, other, plot, ctrls>>

\* 106-111 / 546-550
StageK2 ==
    /\ pc = "k2"
    /\ k2' = Derivatives(version, params, args.vaccination_rate, halfStage(x, timeStep, k1))
    /\ nDeriv' = nDeriv + 1
    /\ pc' = "k3"
    /\ UNCHANGED <<version, args, state, params, ix, x, k1, k3, k4, new, error, output,
                   nSteps>>
    /\ UNCHANGED <<results, other, plot, ctrls>>

\* 113-118 / 553-557
StageK3 ==
    /\ pc = "k3"
    /\ k3' = Derivatives(version, params, args.vaccination_rate, halfStage(x, timeStep, k2))
    /\ nDeriv' = nDeriv + 1
    /\ pc' = "k4"
    /\ UNCHANGED <<version, args, state, params, ix, x, k1, k2, k4, new, error, output,
                   nSteps>>
    /\ UNCHANGED <<results, other, plot, ctrls>>

\* 120-125 / 560-564
StageK4 ==
    /\ pc = "k4"
    /\ k4' = Derivatives(version, params, args.vaccination_rate, fullStage(x, timeStep, k3))
    /\ nDeriv' = nDeriv + 1
    /\ pc' = "combine"
    /\ UNCHANGED <<version, args, state, params, ix, x, k1, k2, k3, new, error, output,
                   nSteps>>
    /\ UNCHANGED <<results, other, plot, ctrls>>

\* Variant: the step writes its result into the array it was given.
CombineInPlace ==
    /\ pc = "combine"
    /\ new' = stepResult(x, timeStep, k1, k2, k3, k4)
    /\ x' = stepResult(x, timeStep, k1, k2, k3, k4)
    /\ nSteps' = nSteps + 1
    /\ pc' = "store"
    /\ UNCHANGED <<version, args, state, params, ix, k1, k2, k3, k4, error, output,
                   nDeriv>>
    /\ UNCHANGED <<results, other, plot, ctrls>>

\* 127-135 / 567-572: the step returns
Combine ==
    /\ pc = "combine"
    /\ new' = stepResult(x, timeStep, k1, k2, k3, k4)
    /\ nSteps' = nSteps + 1
    /\ pc' = "store"
    /\ UNCHANGED <<version, args, state, params, ix, x, k1, k2, k3, k4, error, output,
                   nDeriv>>
    /\ UNCHANGED <<results, other, plot, ctrls>>

\* Variant: the step's result also overwrites the day it started from.
StoreRewritingPrevious ==
    /\ pc = "store"
    /\ state' = [s |-> [state.s EXCEPT ![ix] = clamp(new[1]), ![ix + 1] = clamp(new[1])],
                 e |-> [state.e EXCEPT ![ix] = clamp(new[2]), ![ix + 1] = clamp(new[2])],
                 i |-> [state.i EXCEPT ![ix] = clamp(new[3]), ![ix + 1] = clamp(new[3])],
                 r |-> [state.r EXCEPT ![ix] = clamp(new[4]), ![ix + 1] = clamp(new[4])]]
    /\ ix' = ix + 1
    /\ pc' = "loop"
    /\ UNCHANGED <<version, args, params, x, k1, k2, k3, k4, new, error, output,
                   nDeriv, nSteps>>
    /\ UNCHANGED <<results, other, plot, ctrls>>

\* 194-197 / 580-583, then ix++
Store ==
    /\ pc = "store"
    /\ state' = [s |-> [state.s EXCEPT ![ix + 1] = clamp(new[1])],
                 e |-> [state.e EXCEPT ![ix + 1] = clamp(new[2])],
                 i |-> [state.i EXCEPT ![ix + 1] = clamp(new[3])],
                 r |-> [state.r EXCEPT ![ix + 1] = clamp(new[4])]]
    /\ ix' = ix + 1
    /\ pc' = "loop"
    /\ UNCHANGED <<version, args, params, x, k1, k2, k3, k4, new, error, output,
                   nDeriv, nSteps>>
    /\ UNCHANGED <<results, other, plot, ctrls>>

\* 200-206 / 586-609
Return ==
    /\ pc = "loop"
    /\ ~loopCondition(ix, args.n)
    /\ output' = IF version = "class"
                 THEN [s |-> formatDataForPlot(state.s), e |-> formatDataForPlot(state.e),
                       i |-> formatDataForPlot(state.i), r |-> formatDataForPlot(state.r),
                       ymax |-> PERCENTAGE_SCALE]
                 ELSE inlineOutput(state, args.n)
    /\ pc' = "returned"
    /\ UNCHANGED <<version, args, state, params, ix, x, k1, k2, k3, k4, new, error,
                   nDeriv, nSteps>>
    /\ UNCHANGED <<results, other, plot, ctrls>>

Next ==
    \/ Validate
    \/ Allocate
    \/ SetInitialConditions
    \/ Setup
    \/ LoopEnter
    \/ StageK1
    \/ StageK2
    \/ StageK3
    \/ StageK4
    \/ Combine
    \/ Store
    \/ Return

Spec == Init /\ [][Next]_vars

\* solve is synchronous straight-line code: once called it runs to its end.
FairSpec == Spec /\ WF_vars(Next)

-----------------------------------------------------------------------------
(* new SEIRParameters(config) on its own, with a config that no validation *)
(* has seen: seirs.js 58-69.  A period of 0 makes the constructor divide   *)
(* by zero, which yields Infinity and no exception; Infinity is outside    *)
(* the number domain here, so the configs carry non-zero periods.          *)

Configs ==
    [ R0 : {0 - Unit, 0, Unit, 3 * Unit},
      infectious_period : {0 - Unit, 2 * Unit},
      latent_period : {0 - Unit, Unit},
      death_onset : {0 - Unit, 0, 4 * Unit},
      immunity_duration : {0 - Unit, Unit},
      life_expectancy : {0 - Unit, Unit} ]

InitParams ==
    /\ version = "class"
    /\ args \in Configs
    /\ pc = "new"
    /\ state = NoState
    /\ params = NoParams
    /\ ix = 0
    /\ x = <<>>
    /\ k1 = NoDeriv /\ k2 = NoDeriv /\ k3 = NoDeriv /\ k4 = NoDeriv
    /\ new = <<>>
    /\ error = ""
    /\ output = <<>>
    /\ nDeriv = 0
    /\ nSteps = 0
    /\ results = <<>>
    /\ plot = NoPlot
    /\ ctrls = NoControls
    /\ other = NoCall

\* The constructor body: six assignments, no throw statement.
Construct ==
    /\ pc = "new"
    /\ params' = SEIRParameters(args)
    /\ pc' = "constructed"
    /\ UNCHANGED <<version, args, state, ix, x, k1, k2, k3, k4, new, error, output,
                   nDeriv, nSteps>>
    /\ UNCHANGED <<results, other, plot, ctrls>>

NextParams == Construct

SpecParams == InitParams /\ [][NextParams]_vars

-----------------------------------------------------------------------------
(* Several calls of solve.  Every call binds its own arguments and declares *)
(* its own locals (seirs.js 143-153, 165-188); the one module-level object  *)
(* solve reads, CONSTANTS (7-15), is written nowhere.                       *)

MaxCalls == 3   \* calls made one after the other

CallArgs ==
    [ n : 0..2, S0 : {Half}, R0 : {3 * Unit}, latent_period : {Unit},
      infectious_period : {2 * Unit}, death_onset : {4 * Unit},
      immunity_duration : {Unit}, life_expectancy : {Unit},
      vaccination_rate : {0, Half} ]

\* The locals of a call of version v that has just been entered with arguments a.
Entered(v, a) ==
    [version |-> v, args |-> a, pc |-> "validate", state |-> NoState,
     params |-> NoParams, ix |-> 0, x |-> <<>>,
     k1 |-> NoDeriv, k2 |-> NoDeriv, k3 |-> NoDeriv, k4 |-> NoDeriv,
     new |-> <<>>, error |-> "", output |-> <<>>, nDeriv |-> 0, nSteps |-> 0]

\* The locals of the running call.
Locals ==
    [version |-> version, args |-> args, pc |-> pc, state |-> state,
     params |-> params, ix |-> ix, x |-> x,
     k1 |-> k1, k2 |-> k2, k3 |-> k3, k4 |-> k4,
     new |-> new, error |-> error, output |-> output, nDeriv |-> nDeriv, nSteps |-> nSteps]

\* The running call has the locals c.
Running(c) ==
    /\ version = c.version /\ args = c.args /\ pc = c.pc /\ state = c.state
    /\ params = c.params /\ ix = c.ix /\ x = c.x
    /\ k1 = c.k1 /\ k2 = c.k2 /\ k3 = c.k3 /\ k4 = c.k4
    /\ new = c.new /\ error = c.error /\ output = c.output
    /\ nDeriv = c.nDeriv /\ nSteps = c.nSteps

\* The call with locals c runs next.
Resume(c) ==
    /\ version' = c.version /\ args' = c.args /\ pc' = c.pc /\ state' = c.state
    /\ params' = c.params /\ ix' = c.ix /\ x' = c.x
    /\ k1' = c.k1 /\ k2' = c.k2 /\ k3' = c.k3 /\ k4' = c.k4
    /\ new' = c.new /\ error' = c.error /\ output' = c.output
    /\ nDeriv' = c.nDeriv /\ nSteps' = c.nSteps

Ended(c) == c.pc \in {"returned", "threw"}

InitCalls ==
    /\ \E v \in {"class", "inline"}, a \in CallArgs : Running(Entered(v, a))
    /\ results = <<>>
    /\ plot = NoPlot
    /\ ctrls = NoControls
    /\ other = NoCall

\* Variant: the loop index lives at module level and is initialised once.
InvokeStaleIndex ==
    /\ Ended(Locals)
    /\ Len(results) + 1 < MaxCalls
    /\ results' = Append(results, [version |-> version, args |-> args,
                                   error |-> error, output |-> output])
    /\ \E v \in {"class", "inline"}, a \in CallArgs :
           Resume([Entered(v, a) EXCEPT !.ix = ix])
    /\ UNCHANGED <<other, plot, ctrls>>

\* The next call of solve, made when the previous one has ended.
Invoke ==
    /\ Ended(Locals)
    /\ Len(results) + 1 < MaxCalls
    /\ results' = Append(results, [version |-> version, args |-> args,
                                   error |-> error, output |-> output])
    /\ \E v \in {"class", "inline"}, a \in CallArgs : Resume(Entered(v, a))
    /\ UNCHANGED <<other, plot, ctrls>>

NextCalls ==
    \/ Next
    \/ Invoke

SpecCalls == InitCalls /\ [][NextCalls]_vars

-----------------------------------------------------------------------------
(* solve as one function of its arguments: what a call returns when it is  *)
(* the only one running.  seirs.js 143-207 (486-610 inline).               *)

\* The loop body at index i: one RK4 step from day i, clamped, stored as day
\* i + 1 (seirs.js 183-198).
iteration(v, par, a, st, i) ==
    IF ~loopCondition(i, a.n) THEN st
    ELSE LET nw == step(v, par, a.vaccination_rate,
                        <<st.s[i], st.e[i], st.i[i], st.r[i]>>, timeStep)
         IN  [s |-> [st.s EXCEPT ![i + 1] = clamp(nw[1])],
              e |-> [st.e EXCEPT ![i + 1] = clamp(nw[2])],
              i |-> [st.i EXCEPT ![i + 1] = clamp(nw[3])],
              r |-> [st.r EXCEPT ![i + 1] = clamp(nw[4])]]

\* The iterations lo, lo + 1, ..., hi - 1 in that order.  The range is
\* evaluated in two halves: the first half is computed (its arrays have the
\* length they had), then the second continues from it.
RECURSIVE integrate(_, _, _, _, _, _)
integrate(v, par, a, st, lo, hi) ==
    IF hi <= lo THEN st
    ELSE IF hi = lo + 1 THEN iteration(v, par, a, st, lo)
    ELSE LET mid == (lo + hi) \div 2
             half == integrate(v, par, a, st, lo, mid)
         IN  IF DOMAIN half.i = DOMAIN st.i
             THEN integrate(v, par, a, half, mid, hi)
             ELSE half

\* The four arrays at the end of the loop.
trajectory(v, a) ==
    LET zeros == [k \in 0..a.n |-> 0]
        y0 == initialConditions(a)
    IN  integrate(v, IF v = "class" THEN SEIRParameters(a) ELSE inlineParameters(a), a,
                  [s |-> [zeros EXCEPT ![0] = y0[1]], e |-> [zeros EXCEPT ![0] = y0[2]],
                   i |-> [zeros EXCEPT ![0] = y0[3]], r |-> [zeros EXCEPT ![0] = y0[4]]],
                  0, a.n)

solveAlone(v, a) ==
    LET msg == IF v = "class" THEN solveValidation(a) ELSE inlineValidation(a)
        st == trajectory(v, a)
    IN  IF msg # "" THEN [error |-> msg, output |-> <<>>]
        ELSE [error |-> "",
              output |-> IF v = "class"
                         THEN [s |-> formatDataForPlot(st.s), e |-> formatDataForPlot(st.e),
                               i |-> formatDataForPlot(st.i), r |-> formatDataForPlot(st.r),
                               ymax |-> PERCENTAGE_SCALE]
                         ELSE inlineOutput(st, a.n)]

-----------------------------------------------------------------------------
(* Two calls of solve in flight at once, their steps interleaved in any    *)
(* order.  The locals of the call that is not running wait in `other`.     *)

InitPair ==
    /\ \E v \in {"class", "inline"}, a \in CallArgs : Running(Entered(v, a))
    /\ \E v \in {"class", "inline"}, a \in CallArgs : other = Entered(v, a)
    /\ results = <<>>
    /\ plot = NoPlot
    /\ ctrls = NoControls

\* Variant: the array handed to the RK4 step is one module-level scratch array.
SwitchSharedScratch ==
    /\ ~Ended(other)
    /\ other' = Locals
    /\ Resume([other EXCEPT !.x = x])
    /\ UNCHANGED <<results, plot, ctrls>>

\* The running call is suspended and the other call runs.
Switch ==
    /\ ~Ended(other)
    /\ other' = Locals
    /\ Resume(other)
    /\ UNCHANGED <<results, plot, ctrls>>

NextPair ==
    \/ Next
    \/ Switch

SpecPair == InitPair /\ [][NextPair]_vars

-----------------------------------------------------------------------------
(* solve without disease death and without vaccination (death_onset = 0,   *)
(* vaccination_rate = 0), over latent and infectious periods down to half  *)
(* a day and one day.                                                      *)

ConservationInputs ==
    [ n : 1..MaxN,
      S0 : {0, Half, Percent99, Unit},
      R0 : {Unit, 3 * Unit},
      latent_period : {Half, Unit},
      infectious_period : {Unit, 2 * Unit},
      death_onset : {0},
      immunity_duration : {Unit},
      life_expectancy : {Unit},
      vaccination_rate : {0} ]

InitConservation ==
    /\ \E v \in {"class", "inline"}, a \in ConservationInputs : Running(Entered(v, a))
    /\ results = <<>>
    /\ plot = NoPlot
    /\ ctrls = NoControls
    /\ other = NoCall

SpecConservation == InitConservation /\ [][Next]_vars

-----------------------------------------------------------------------------
(* RK4Integrator.step(state, h) on its own, seirs.js 100-136 (532-573      *)
(* inline), for step sizes other than the 1.0 that solve passes.           *)

StepSizes == {Half, Unit, 2 * Unit}

StepArgs ==
    [ h : StepSizes, R0 : {3 * Unit}, latent_period : {Unit},
      infectious_period : {2 * Unit}, death_onset : {0, 4 * Unit},
      immunity_duration : {Unit}, life_expectancy : {Unit},
      vaccination_rate : {0, Half} ]

StepStates ==
    { <<Half, Half, 0, 0>>,
      <<Half, Unit \div 4, Unit \div 4, 0>>,
      <<Unit \div 4, Unit \div 4, Unit \div 4, Unit \div 4>>,
      <<0 - Half, Half, 0, Unit>> }

InitStep ==
    /\ version \in {"class", "inline"}
    /\ args \in StepArgs
    /\ pc = "step"
    /\ state = NoState
    /\ params = IF version = "class" THEN SEIRParameters(args) ELSE inlineParameters(args)
    /\ ix = 0
    /\ x \in StepStates
    /\ k1 = NoDeriv /\ k2 = NoDeriv /\ k3 = NoDeriv /\ k4 = NoDeriv
    /\ new = <<>>
    /\ error = ""
    /\ output = <<>>
    /\ nDeriv = 0
    /\ nSteps = 0
    /\ results = <<>>
    /\ plot = NoPlot
    /\ ctrls = NoControls
    /\ other = NoCall

\* One call of step(x, h).
ApplyStep ==
    /\ pc = "step"
    /\ new' = step(version, params, args.vaccination_rate, x, args.h)
    /\ nDeriv' = nDeriv + 4
    /\ nSteps' = nSteps + 1
    /\ pc' = "stepped"
    /\ UNCHANGED <<version, args, state, params, ix, x, k1, k2, k3, k4, error, output>>
    /\ UNCHANGED <<results, other, plot, ctrls>>

NextStep == ApplyStep

SpecStep == InitStep /\ [][NextStep]_vars

-----------------------------------------------------------------------------
(* solve over a range of R0 above the epidemic threshold, all else fixed:  *)
(* nearly all susceptible, a few exposed, fast latent and infectious       *)
(* periods.                                                                *)

SensitivityInputs ==
    [ n : {MaxN, MaxN + 1},
      S0 : {Percent99},
      R0 : {3 * Unit, 4 * Unit, 5 * Unit},
      latent_period : {Half},
      infectious_period : {Unit, 2 * Unit},
      death_onset : {0},
      immunity_duration : {Unit},
      life_expectancy : {Unit},
      vaccination_rate : {0} ]

InitSensitivity ==
    /\ \E v \in {"class", "inline"}, a \in SensitivityInputs : Running(Entered(v, a))
    /\ results = <<>>
    /\ plot = NoPlot
    /\ ctrls = NoControls
    /\ other = NoCall

SpecSensitivity == InitSensitivity /\ [][Next]_vars

-----------------------------------------------------------------------------
(* solve on the default scenario of the plot, PlotConfiguration.params     *)
(* (seirs.js 220-231), the call taken as one step from entry to return.    *)
(* The horizon is the default of 3000 days or a few days less.             *)

ScenarioHorizons == 30

ScenarioInputs ==
    [ n : (3000 - ScenarioHorizons + 1)..3000,
      S0 : {Percent99},
      R0 : {3 * Unit},
      latent_period : {7 * Unit},
      infectious_period : {14 * Unit},
      death_onset : {100 * Unit},
      immunity_duration : {Unit},
      life_expectancy : {76 * Unit},
      vaccination_rate : {Half} ]

InitScenario ==
    /\ \E v \in {"class", "inline"}, a \in ScenarioInputs : Running(Entered(v, a))
    /\ results = <<>>
    /\ plot = NoPlot
    /\ ctrls = NoControls
    /\ other = NoCall

\* One whole call of solve: validation, the loop over the days, the result.
Solve ==
    /\ pc = "validate"
    /\ \E res \in {solveAlone(version, args)} :
           /\ error' = res.error
           /\ output' = res.output
           /\ pc' = IF res.error = "" THEN "returned" ELSE "threw"
           /\ nSteps' = IF res.error = "" THEN args.n ELSE 0
           /\ nDeriv' = IF res.error = "" THEN 4 * args.n ELSE 0
    /\ UNCHANGED <<version, args, state, params, ix, x, k1, k2, k3, k4, new>>
    /\ UNCHANGED <<results, other, plot, ctrls>>

NextScenario == Solve

SpecScenario == InitScenario /\ [][NextScenario]_vars

-----------------------------------------------------------------------------
(* solve called with a number of days that need not be whole.  Here args.n *)
(* is a number in fixed point like the other arguments: validation asks    *)
(* only for n > 0, new Float64Array(n + 1) has the whole part of n + 1 as  *)
(* its length, a write past the end of a Float64Array is dropped and a     *)
(* read past the end yields undefined, whose product with 100 is NaN.      *)

NaN == "NaN"

DaysInputs ==
    [ n : {k * Unit : k \in 0..MaxN} \cup {k * Unit + Half : k \in 0..MaxN},
      S0 : {Half, Percent99},
      R0 : {Unit, 3 * Unit},
      latent_period : {Unit},
      infectious_period : {2 * Unit},
      death_onset : {0},
      immunity_duration : {Unit},
      life_expectancy : {Unit},
      vaccination_rate : {0, Half} ]

\* new Float64Array(n + 1), seirs.js 167-170 (500-503 inline).
arrayLength(days) == (days + Unit) \div Unit

\* The number of passes of for (ix = 0; ix < n + 1; ix++), seirs.js 591.
inlineEntries(days) == (days + 2 * Unit - 1) \div Unit

\* What a call returns for such an n.  The loop over ix < n fills the arrays
\* as far as they reach; the class-based version formats one entry per array
\* element, the inline version one entry per ix < n + 1.
solveDays(v, a) ==
    LET msg == IF v = "class" THEN solveValidation(a) ELSE inlineValidation(a)
        st == trajectory(v, [a EXCEPT !.n = arrayLength(a.n) - 1])
        data(array) ==
            [k \in 0..(inlineEntries(a.n) - 1) |->
                [x |-> k, y |-> IF k \in DOMAIN array THEN 100 * array[k] ELSE NaN]]
    IN  IF msg # "" THEN [error |-> msg, output |-> <<>>]
        ELSE [error |-> "",
              output |-> IF v = "class"
                         THEN [s |-> formatDataForPlot(st.s), e |-> formatDataForPlot(st.e),
                               i |-> formatDataForPlot(st.i), r |-> formatDataForPlot(st.r),
                               ymax |-> PERCENTAGE_SCALE]
                         ELSE [s |-> data(st.s), e |-> data(st.e), i |-> data(st.i),
                               r |-> data(st.r), ymax |-> 100]]

InitDays ==
    /\ \E v \in {"class", "inline"}, a \in DaysInputs : Running(Entered(v, a))
    /\ results = <<>>
    /\ plot = NoPlot
    /\ ctrls = NoControls
    /\ other = NoCall

\* One whole call of solve.
SolveDays ==
    /\ pc = "validate"
    /\ \E res \in {solveDays(version, args)} :
           /\ error' = res.error
           /\ output' = res.output
           /\ pc' = IF res.error = "" THEN "returned" ELSE "threw"
    /\ UNCHANGED <<version, args, state, params, ix, x, k1, k2, k3, k4, new, nDeriv, nSteps>>
    /\ UNCHANGED <<results, other, plot, ctrls>>

NextDays == SolveDays

SpecDays == InitDays /\ [][NextDays]_vars

-----------------------------------------------------------------------------
(* generateParams, params.js 3-18.  Values are fixed-point numbers; Cent   *)
(* is 0.01.  defaultVal is a set with at most one element, empty for null. *)
(* Labels are display strings and are left out of the entries.             *)

Cent == Unit \div 100

\* Math.round(a / b) for b > 0: the nearest integer, halves upwards.
RoundDiv(a, b) == (2 * a + b) \div (2 * b)

\* Math.round(num * 100) / 100.
roundToTwoDecimals(num) == RoundDiv(num, Cent) * Cent

\* The entries for i = 0..numSteps, as a sequence.
generateParams(start, end, stepSize, defaultVal) ==
    LET numSteps == RoundDiv(end - start, stepSize)
    IN  [k \in 1..(numSteps + 1) |->
            LET value == roundToTwoDecimals(start + (k - 1) * stepSize)
            IN  [value |-> value, default |-> value \in defaultVal]]

GenerateInputs ==
    [ start : {0, 10 * Cent, 100 * Cent},
      end : {100 * Cent, 200 * Cent},
      step : {10 * Cent, 30 * Cent, 40 * Cent, 100 * Cent},
      defaultVal : {{}, {100 * Cent}, {120 * Cent}} ]

InitGenerate ==
    /\ \E a \in GenerateInputs : Running([Entered("params", a) EXCEPT !.pc = "generate"])
    /\ results = <<>>
    /\ plot = NoPlot
    /\ ctrls = NoControls
    /\ other = NoCall

\* One call of generateParams.
Generate ==
    /\ pc = "generate"
    /\ output' = generateParams(args.start, args.end, args.step, args.defaultVal)
    /\ pc' = "generated"
    /\ UNCHANGED <<version, args, state, params, ix, x, k1, k2, k3, k4, new, error,
                   nDeriv, nSteps>>
    /\ UNCHANGED <<results, other, plot, ctrls>>

NextGenerate == Generate

SpecGenerate == InitGenerate /\ [][NextGenerate]_vars

-----------------------------------------------------------------------------
(* param_vals, params.js 20-31, and the documented table of the same       *)
(* module, part_001 153-192.                                               *)

One == 100 * Cent

param_vals ==
    [ n_days |-> generateParams(50 * One, 3000 * One, 50 * One, {3000 * One}),
      y_max |-> generateParams(5 * One, 100 * One, 5 * One, {100 * One}),
      R0 |-> generateParams(One, 5 * One, 10 * Cent, {3 * One}),
      latent_period |-> generateParams(One, 30 * One, One, {7 * One}),
      infectious_period |-> generateParams(One, 30 * One, One, {14 * One}),
      S0 |-> generateParams(0, One, Cent, {99 * Cent}),
      death_onset |-> generateParams(0, 1000 * One, One, {15 * One}),
      immunity_duration |-> generateParams(10 * Cent, 10 * One, 10 * Cent, {One}),
      life_expectancy |-> generateParams(One, 100 * One, One, {76 * One}),
      vaccination_rate |-> generateParams(0, One, Cent, {0}) ]

param_vals_documented ==
    [ n_days |-> generateParams(50 * One, 3000 * One, 50 * One, {3000 * One}),
      y_max |-> generateParams(5 * One, 100 * One, 5 * One, {100 * One}),
      R0 |-> generateParams(One, 5 * One, 10 * Cent, {3 * One}),
      latent_period |-> generateParams(One, 30 * One, One, {7 * One}),
      infectious_period |-> generateParams(One, 30 * One, One, {14 * One}),
      S0 |-> generateParams(0, One, Cent, {99 * Cent}),
      death_onset |-> generateParams(0, 1000 * One, One, {0}),
      immunity_duration |-> generateParams(0, 10 * One, 10 * Cent, {One}),
      life_expectancy |-> generateParams(One, 100 * One, One, {76 * One}),
      vaccination_rate |-> generateParams(0, One, Cent, {0}),
      use_log_scale |-> generateParams(0, One, One, {0}) ]

\* The sliders whose values are passed to solve (seirs.js 342-352).
SolveSliders ==
    {"n_days", "R0", "latent_period", "infectious_period", "S0", "death_onset",
     "immunity_duration", "life_expectancy", "vaccination_rate"}

\* Every value a slider offers; its first, last and default value.
Offered(table, id) == {table[id][k].value : k \in DOMAIN table[id]}

Ends(table, id) ==
    {table[id][1].value, table[id][Len(table[id])].value}
        \cup {table[id][k].value : k \in {j \in DOMAIN table[id] : table[id][j].default}}

Defaults(table) ==
    [id \in SolveSliders |->
        CHOOSE v \in Offered(table, id) :
            \E k \in DOMAIN table[id] : table[id][k].default /\ table[id][k].value = v]

\* Slider positions: every slider at an end or at its default, and every
\* single slider moved through all of its values with the others at their
\* defaults.  Each check of the validation reads one argument only.
SliderPositions(table) ==
    [ n_days : Ends(table, "n_days"), R0 : Ends(table, "R0"),
      latent_period : Ends(table, "latent_period"),
      infectious_period : Ends(table, "infectious_period"),
      S0 : Ends(table, "S0"), death_onset : Ends(table, "death_onset"),
      immunity_duration : Ends(table, "immunity_duration"),
      life_expectancy : Ends(table, "life_expectancy"),
      vaccination_rate : Ends(table, "vaccination_rate") ]
    \cup LET defaults == Defaults(table)
         IN  UNION {{[defaults EXCEPT ![id] = v] : v \in Offered(table, id)} :
                        id \in SolveSliders}

\* The arguments solve is called with for the parameters p (seirs.js 342-352).
solveArguments(p) ==
    [ n |-> p.n_days \div One, S0 |-> p.S0, R0 |-> p.R0,
      latent_period |-> p.latent_period, infectious_period |-> p.infectious_period,
      death_onset |-> p.death_onset, immunity_duration |-> p.immunity_duration,
      life_expectancy |-> p.life_expectancy, vaccination_rate |-> p.vaccination_rate ]

InitSliders ==
    /\ \E v \in {"class", "inline"},
          p \in SliderPositions(param_vals) \cup SliderPositions(param_vals_documented) :
              Running(Entered(v, solveArguments(p)))
    /\ results = <<>>
    /\ plot = NoPlot
    /\ ctrls = NoControls
    /\ other = NoCall

NextSliders == Validate

SpecSliders == InitSliders /\ [][NextSliders]_vars

-----------------------------------------------------------------------------
(* The interactive plot: plot(plot_id, ctrl_id, param_vals), seirs.js      *)
(* 468-484, and its inline version, 612-803.  `version` names the          *)
(* implementation of both the plot and the solve it calls; args, pc, error *)
(* and output describe the last call of solve made by an update.           *)
(* Numbers of the form are fixed-point numbers, so that parseFloat of a    *)
(* control's value is that number; pixels are whole numbers.               *)

MaxUpdates == 3

margin == [top |-> 20, right |-> 20, bottom |-> 30, left |-> 80]
axis_width == 2

\* this.params of PlotConfiguration (seirs.js 220-231, 628-639 inline).
defaultParams ==
    [ S0 |-> 99 * Cent, R0 |-> 3 * One, latent_period |-> 7 * One,
      infectious_period |-> 14 * One, n_days |-> 3000 * One, y_max |-> 100 * One,
      death_onset |-> 100 * One, immunity_duration |-> One, life_expectancy |-> 76 * One,
      vaccination_rate |-> 50 * Cent ]

\* The page: the sizes the svg element can have, the table handed to plot
\* and the form controls.  min and max of a control are <<>> while the
\* attribute is not set.  The table has no entry for vaccination_rate, and
\* the control "theme" is no parameter of the plot.
Sizes == {[width |-> 400, height |-> 300], [width |-> 800, height |-> 600]}

PageTable ==
    [ n_days |-> generateParams(One, MaxN * One, One, {2 * One}),
      R0 |-> generateParams(One, 3 * One, 2 * One, {}) ]

rangeControl ==
    [tag |-> "input", type |-> "range", min |-> <<>>, max |-> <<>>, value |-> 0,
     data |-> <<>>, show_value |-> <<>>]

PageControls(S0) ==
    [ theme |-> [tag |-> "select", type |-> "select-one", min |-> <<>>, max |-> <<>>,
                 value |-> 0, data |-> <<>>, show_value |-> <<>>],
      n_days |-> rangeControl,
      R0 |-> rangeControl,
      S0 |-> [tag |-> "input", type |-> "number", min |-> <<>>, max |-> <<>>,
              value |-> S0, data |-> <<>>, show_value |-> <<>>],
      vaccination_rate |-> rangeControl ]

\* The controls in the order of selectAll('select') and selectAll('input').
ControlOrder == <<"theme", "n_days", "R0", "S0", "vaccination_rate">>

\* What the user can set a control to.
UserValues(cs, id) ==
    IF cs[id].type = "range"
    THEN IF cs[id].max = <<>> THEN {0, 1} ELSE 0..cs[id].max[1]
    ELSE IF id = "S0" THEN {Half, 99 * Cent, One + Half}
    ELSE {0, 1}

NoScale == <<>>

\* The plot object when PlotConfiguration has been constructed.
constructed(size) ==
    [ phase |-> "constructed", params |-> defaultParams,
      width |-> size.width, height |-> size.height,
      x_range |-> NoScale, y_range |-> NoScale, x_axis |-> NoScale, y_axis |-> NoScale,
      x_line |-> NoScale, x_ticks |-> NoScale, y_line |-> NoScale, y_ticks |-> NoScale,
      series |-> <<>>, updates |-> 0 ]

\* initializeRangeInput, seirs.js 311-329: the control c with its range set
\* from the table entry and its value at the default index, if there is one.
initializeRangeInput(c, values) ==
    LET defaultIndex == {k \in DOMAIN values : values[k].default}
    IN  [c EXCEPT !.min = <<0>>, !.max = <<Len(values) - 1>>, !.data = values,
                  !.value = IF defaultIndex # {}
                            THEN (CHOOSE k \in defaultIndex : \A j \in defaultIndex : k <= j) - 1
                            ELSE Min(c.value, Len(values) - 1)]

\* Variant: the range control's value is shown but not stored.
handleRangeInputLabelOnly(p, cs, id, table) ==
    LET c == IF cs[id].min = cs[id].max /\ id \in DOMAIN table
             THEN initializeRangeInput(cs[id], table[id])
             ELSE cs[id]
        entry == c.data[c.value + 1]
    IN  IF cs[id].min = cs[id].max /\ id \notin DOMAIN table
        THEN [plot |-> p, ctrls |-> cs, set |-> FALSE]
        ELSE [plot |-> p,
              ctrls |-> [cs EXCEPT ![id] = [c EXCEPT !.show_value = <<entry.value>>]],
              set |-> TRUE]

\* handleRangeInput, seirs.js 294-309 (the range branch of set_param, 648-674
\* inline).  set is FALSE when the control could not be initialised.
handleRangeInput(p, cs, id, table) ==
    LET c == IF cs[id].min = cs[id].max /\ id \in DOMAIN table
             THEN initializeRangeInput(cs[id], table[id])
             ELSE cs[id]
        entry == c.data[c.value + 1]
    IN  IF cs[id].min = cs[id].max /\ id \notin DOMAIN table
        THEN [plot |-> p, ctrls |-> cs, set |-> FALSE]
        ELSE [plot |-> [p EXCEPT !.params[id] = entry.value],
              ctrls |-> [cs EXCEPT ![id] = [c EXCEPT !.show_value = <<entry.value>>]],
              set |-> TRUE]

\* The function createSetter returns, seirs.js 272-292, up to its last
\* statement: update tells whether plot.update() is reached.
createSetter(p, cs, id, table) ==
    IF id \notin DOMAIN p.params
    THEN [plot |-> p, ctrls |-> cs, update |-> FALSE]
    ELSE IF cs[id].type = "range"
    THEN LET r == handleRangeInput(p, cs, id, table)
         IN  [plot |-> r.plot, ctrls |-> r.ctrls, update |-> TRUE]
    ELSE [plot |-> [p EXCEPT !.params[id] = cs[id].value], ctrls |-> cs, update |-> TRUE]

\* The function set_param returns, seirs.js 644-686.
set_param(p, cs, id, table) ==
    IF id \notin DOMAIN p.params
    THEN [plot |-> p, ctrls |-> cs, update |-> FALSE]
    ELSE IF cs[id].type = "range"
    THEN LET r == handleRangeInput(p, cs, id, table)
         IN  [plot |-> r.plot, ctrls |-> r.ctrls, update |-> r.set]
    ELSE [plot |-> [p EXCEPT !.params[id] = cs[id].value], ctrls |-> cs, update |-> TRUE]

setter(v, p, cs, id, table) ==
    IF v = "class" THEN createSetter(p, cs, id, table) ELSE set_param(p, cs, id, table)

\* The setters run with update_plot = false over the controls ids[k..].
RECURSIVE initialize(_, _, _, _, _, _)
initialize(v, p, cs, ids, k, table) ==
    IF k > Len(ids) THEN [plot |-> p, ctrls |-> cs]
    ELSE LET r == setter(v, p, cs, ids[k], table)
         IN  initialize(v, r.plot, r.ctrls, ids, k + 1, table)

\* A d3 linear scale applied to v.
scaleAt(sc, v) ==
    sc.range[1] + ((v - sc.domain[1]) * (sc.range[2] - sc.range[1]))
                      \div (sc.domain[2] - sc.domain[1])

\* updateScales, seirs.js 357-393 (710-744 inline).
updateScales(p) ==
    LET xr == [range |-> <<margin.left, p.width - margin.right>>,
               domain |-> <<0, p.params.n_days>>]
        yr == [range |-> <<p.height - margin.bottom, margin.top>>,
               domain |-> <<0, p.params.y_max>>]
    IN  [p EXCEPT !.x_range = xr, !.y_range = yr,
                  !.x_axis = [scale |-> xr, ticks |-> 10, tickSize |-> 0],
                  !.y_axis = [scale |-> yr, orient |-> "left", tickSize |-> 0,
                              tickFormat |-> "%", ticks |-> 4]]

\* updateAxes, seirs.js 395-444 (746-776 inline).
updateAxes(p) ==
    [p EXCEPT
        !.x_line = [x1 |-> scaleAt(p.x_range, 0) - axis_width,
                    y1 |-> scaleAt(p.y_range, 0) + axis_width,
                    x2 |-> scaleAt(p.x_range, p.params.n_days),
                    y2 |-> scaleAt(p.y_range, 0) + axis_width],
        !.x_ticks = [transform |-> <<0, p.height - margin.bottom \div 2>>, axis |-> p.x_axis],
        !.y_line = [x1 |-> scaleAt(p.x_range, 0) - axis_width,
                    y1 |-> scaleAt(p.y_range, 0) + axis_width,
                    x2 |-> scaleAt(p.x_range, 0) - axis_width,
                    y2 |-> scaleAt(p.y_range, p.params.y_max)],
        !.y_ticks = [transform |-> <<(7 * margin.left) \div 10, 0>>, axis |-> p.y_axis]]

\* plot.draw_line, seirs.js 243-248: the points of a series under the scales.
draw_line(p, data) ==
    [k \in DOMAIN data |-> <<scaleAt(p.x_range, data[k].x * One), scaleAt(p.y_range, data[k].y)>>]

\* The four paths appended for the output out, in the order of appending.
seriesPaths(p, out) ==
    << [class |-> "varS series", d |-> draw_line(p, out.s)],
       [class |-> "varE series", d |-> draw_line(p, out.e)],
       [class |-> "varI series", d |-> draw_line(p, out.i)],
       [class |-> "varR series", d |-> draw_line(p, out.r)] >>

\* Variant: the series paths are appended to those already there.
drawDataSeriesKeeping(p, out) ==
    [p EXCEPT !.series = p.series \o seriesPaths(p, out)]

\* drawDataSeries, seirs.js 446-461 (778-788 inline): selectAll('path.series')
\* .remove(), then the four appends.
drawDataSeries(p, out) ==
    [p EXCEPT !.series = seriesPaths(p, out)]

\* Variant: the old series are removed and the scales are set before solve is
\* called.
renderClearingFirst(p, res) ==
    IF res.error # "" THEN [updateScales(p) EXCEPT !.series = <<>>]
    ELSE drawDataSeries(updateAxes(updateScales(p)), res.output)

\* update after its call of solve has ended with res, seirs.js 353-355: an
\* error thrown by solve leaves update at once.
render(p, res) ==
    IF res.error # "" THEN p
    ELSE drawDataSeries(updateAxes(updateScales(p)), res.output)

\* plot.update() on the plot object p, seirs.js 341-355 (696-788 inline).
Update(p) ==
    \E res \in {solveAlone(version, solveArguments(p.params))} :
        /\ args' = solveArguments(p.params)
        /\ error' = res.error
        /\ output' = res.output
        /\ pc' = IF res.error = "" THEN "returned" ELSE "threw"
        /\ plot' = [render(p, res) EXCEPT !.updates = @ + 1, !.phase = "ready"]

InitPlot ==
    /\ \E v \in {"class", "inline"} : Running([Entered(v, <<>>) EXCEPT !.pc = "idle"])
    /\ results = <<>>
    /\ other = NoCall
    /\ \E size \in Sizes : plot = constructed(size)
    /\ \E S0 \in {99 * Cent, One + Half} : ctrls = PageControls(S0)

\* paramManager.initialize() and setupEventHandlers(), seirs.js 473-474
\* (688-689 and 791-793 inline).
Initialize ==
    /\ plot.phase = "constructed"
    /\ \E r \in {initialize(version, plot, ctrls, ControlOrder, 1, PageTable)} :
           /\ plot' = [r.plot EXCEPT !.phase = "initialized"]
           /\ ctrls' = r.ctrls
    /\ UNCHANGED <<version, args, pc, state, params, ix, x, k1, k2, k3, k4, new,
                   error, output, nDeriv, nSteps, results, other>>

\* The first update, at the end of plot (seirs.js 483, 802 inline).
FirstUpdate ==
    /\ plot.phase = "initialized"
    /\ Update(plot)
    /\ UNCHANGED <<version, state, params, ix, x, k1, k2, k3, k4, new,
                   nDeriv, nSteps, results, other, ctrls>>

\* The handler of a change or input event on the control id, whose value
\* the user has set to val.
handle(id, val) ==
    /\ plot.phase = "ready"
    /\ plot.updates < MaxUpdates
    /\ \E r \in {setter(version, plot, [ctrls EXCEPT ![id].value = val], id, PageTable)} :
           /\ ctrls' = r.ctrls
           /\ IF r.update THEN Update(r.plot)
              ELSE /\ plot' = r.plot
                   /\ UNCHANGED <<args, pc, error, output>>
    /\ UNCHANGED <<version, state, params, ix, x, k1, k2, k3, k4, new,
                   nDeriv, nSteps, results, other>>

\* "change.param_val" on a select or an input.
ChangeEvent ==
    \E id \in DOMAIN ctrls : \E val \in UserValues(ctrls, id) : handle(id, val)

\* "input.param_val" on an input.
InputEvent ==
    \E id \in {c \in DOMAIN ctrls : ctrls[c].tag = "input"} :
        \E val \in UserValues(ctrls, id) : handle(id, val)

\* The resize handler of the window, seirs.js 478-481 (795-800 inline).
Resize ==
    /\ plot.phase = "ready"
    /\ plot.updates < MaxUpdates
    /\ \E size \in Sizes : Update([plot EXCEPT !.width = size.width, !.height = size.height])
    /\ UNCHANGED <<version, state, params, ix, x, k1, k2, k3, k4, new,
                   nDeriv, nSteps, results, other, ctrls>>

NextPlot ==
    \/ Initialize
    \/ FirstUpdate
    \/ ChangeEvent
    \/ InputEvent
    \/ Resize

SpecPlot == InitPlot /\ [][NextPlot]_vars

-----------------------------------------------------------------------------
(* Vocabulary of the properties *)

\* The input bounds of solve, as the specification states them.
ValidInputs(a) ==
    /\ a.S0 >= 0 /\ a.S0 <= Unit
    /\ a.vaccination_rate >= 0 /\ a.vaccination_rate <= Unit
    /\ a.R0 > 0 /\ a.infectious_period > 0 /\ a.latent_period > 0
    /\ a.immunity_duration > 0 /\ a.life_expectancy > 0 /\ a.n > 0
    /\ a.death_onset >= 0

Series == {"s", "e", "i", "r"}

\* Positions of the call at which the integration loop is running or over.
StagePcs == {"k1", "k2", "k3", "k4", "combine", "store"}
LoopPcs == {"loop"} \cup StagePcs

\* Each input's bound with the message that names it and states the bound.
RequiredBounds(a) ==
    { <<a.n > 0,                 "Number of time steps must be positive">>,
      <<a.S0 >= 0 /\ a.S0 <= Unit, "Initial susceptibility must be between 0 and 1">>,
      <<a.R0 > 0,                "R0 must be positive">>,
      <<a.infectious_period > 0, "Infectious period must be positive">>,
      <<a.latent_period > 0,     "Latent period must be positive">>,
      <<a.immunity_duration > 0, "Immunity duration must be positive">>,
      <<a.life_expectancy > 0,   "Life expectancy must be positive">>,
      <<a.death_onset >= 0,      "Death onset must be non-negative">>,
      <<a.vaccination_rate >= 0 /\ a.vaccination_rate <= Unit,
                                 "Vaccination rate must be between 0 and 1">> }

\* The messages for the inputs of `a` that violate their bound.
RequiredMessages(a) == { b[2] : b \in { c \in RequiredBounds(a) : ~c[1] } }

-----------------------------------------------------------------------------
(* C1: for all valid inputs, every y of every entry of the returned s, e, *)
(* i and r series, the day-0 entry included, lies in [0, 100].            *)
(* Fails: with vaccination_rate > S0 the day-0 susceptible value is the   *)
(* negative S0 - vaccination_rate, which is stored and returned unclamped.*)
C1_AllValuesInRange ==
    pc = "returned" =>
        \A c \in Series : \A k \in DOMAIN output[c] :
            output[c][k].y >= 0 /\ output[c][k].y <= 100 * Unit

-----------------------------------------------------------------------------
(* C2: solve raises a validation error if and only if some input is out   *)
(* of its bound; S0 = 0, S0 = 1, vaccination_rate = 0, vaccination_rate = *)
(* 1 and death_onset = 0 are accepted.                                     *)
C2_ThrowsIffInvalid ==
    pc # "validate" => ((pc = "threw") <=> ~ValidInputs(args))

\* A call on the accepted boundary values has passed validation and returned.
C2_Witness ==
    /\ pc = "returned"
    /\ args.S0 = 0 /\ args.vaccination_rate = Unit /\ args.death_onset = 0

-----------------------------------------------------------------------------
(* C3: validation is fail-fast: when an input violates its bound, the     *)
(* error is raised before any array is allocated, any rate constant is    *)
(* derived, any derivative is evaluated or any RK4 step is performed, and *)
(* nothing is returned.                                                    *)
C3_FailFast ==
    ~ValidInputs(args) =>
        /\ pc \in {"validate", "threw"}
        /\ state = NoState /\ params = NoParams
        /\ nDeriv = 0 /\ nSteps = 0
        /\ output = <<>>

\* A call with a negative death onset (all else valid) has thrown.
C3_Witness ==
    /\ pc = "threw"
    /\ args.death_onset < 0
    /\ ValidInputs([args EXCEPT !.death_onset = 0])

-----------------------------------------------------------------------------
(* C4: the error raised names an offending parameter and states the bound *)
(* required of it: "between 0 and 1" for S0 and vaccination_rate,         *)
(* "positive" for R0, the periods, the durations and n, "non-negative"    *)
(* for death_onset.                                                        *)
(* Fails: the inline solve reports a negative death onset as "Death onset *)
(* must be positive", although 0 is accepted.                             *)
C4_ErrorNamesParameterAndBound ==
    pc = "threw" => error \in RequiredMessages(args)
-----------------------------------------------------------------------------
(* C5: the parameter deriver (SEIRParameters constructor) fails with an   *)
(* InvalidParameterError when called with inputs that would not pass      *)
(* validation, rather than returning rate constants.                      *)
(* Fails: the constructor has no check and no throw statement.            *)

\* The bounds validation puts on the six inputs the constructor reads.
ValidConfig(c) ==
    /\ c.R0 > 0 /\ c.infectious_period > 0 /\ c.latent_period > 0
    /\ c.immunity_duration > 0 /\ c.life_expectancy > 0
    /\ c.death_onset >= 0

C5_DeriverRejectsInvalid ==
    (pc = "constructed" /\ ~ValidConfig(args)) => (error # "" /\ params = NoParams)

(* C5 as amended: the constructor validates nothing and never raises;     *)
(* called with inputs outside their bounds it still returns rate          *)
(* constants by the same formulas (a negative period gives a negative     *)
(* rate, a negative death onset gives alpha = 0).                         *)
C5_DeriverNeverRejects ==
    pc = "constructed" =>
        /\ error = ""
        /\ params # NoParams
        /\ (args.infectious_period < 0 => params.gamma < 0)
        /\ (args.latent_period < 0 => params.sigma < 0)
        /\ (args.immunity_duration < 0 => params.omega < 0)
        /\ (args.life_expectancy < 0 => params.mu < 0)
        /\ (args.death_onset < 0 => params.alpha = 0)

\* The constructor has returned a negative recovery rate for a negative period.
C5_Witness ==
    /\ pc = "constructed"
    /\ args.infectious_period < 0
    /\ params.gamma < 0
-----------------------------------------------------------------------------
(* C6: for valid inputs each returned series s, e, i, r has exactly n + 1 *)
(* entries, entry k (k = 0..n) has x = k and y = 100 times the stored     *)
(* proportion of day k, and ymax is 100 whatever the data.                *)
C6_OutputShape ==
    pc = "returned" =>
        /\ \A c \in Series :
            /\ DOMAIN output[c] = 0..args.n
            /\ Cardinality(DOMAIN output[c]) = args.n + 1
            /\ \A k \in 0..args.n :
                /\ output[c][k].x = k
                /\ output[c][k].y = 100 * state[c][k]
        /\ output.ymax = 100

\* A run of the largest length has returned a series with data in it.
C6_Witness ==
    /\ pc = "returned"
    /\ args.n >= 2
    /\ output.i[args.n].y > 0

-----------------------------------------------------------------------------
(* C7: for valid inputs the day-0 state is s0 = S0 - vaccination_rate,    *)
(* e0 = 1 - S0, i0 = 0, r0 = vaccination_rate (so their sum is 1), and    *)
(* the first RK4 step starts from this state.                             *)
C7_InitialState ==
    pc \in LoopPcs \cup {"returned"} =>
        /\ state.s[0] = args.S0 - args.vaccination_rate
        /\ state.e[0] = Unit - args.S0
        /\ state.i[0] = 0
        /\ state.r[0] = args.vaccination_rate
        /\ state.s[0] + state.e[0] + state.i[0] + state.r[0] = Unit
        /\ (ix = 0 /\ pc \in StagePcs =>
                x = << args.S0 - args.vaccination_rate, Unit - args.S0, 0,
                       args.vaccination_rate >>)

\* The first derivative evaluation of a run from S0 = 0.99, p = 0.5 is done.
C7_Witness ==
    /\ pc = "k2" /\ ix = 0
    /\ args.S0 = Percent99 /\ args.vaccination_rate = Half

-----------------------------------------------------------------------------
(* C8: when vaccination_rate > S0 (both in [0,1]) validation accepts the  *)
(* inputs, the day-0 susceptible value is the negative S0 -               *)
(* vaccination_rate, unclamped, and that negative value is the s          *)
(* component the first RK4 step receives.                                 *)
C8_NegativeS0Unclamped ==
    (ValidInputs(args) /\ args.vaccination_rate > args.S0) =>
        /\ pc # "threw"
        /\ (pc \in LoopPcs \cup {"returned"} =>
                state.s[0] = args.S0 - args.vaccination_rate /\ state.s[0] < 0)
        /\ (ix = 0 /\ pc \in StagePcs =>
                x[1] = args.S0 - args.vaccination_rate /\ x[1] < 0)

\* Stage k1 of the first step has been evaluated at a negative s.
C8_Witness ==
    /\ pc = "k2" /\ ix = 0
    /\ args.vaccination_rate > args.S0
    /\ x[1] < 0

-----------------------------------------------------------------------------
(* C9: for every ix in 0..n-1 each component stored at day ix + 1 is      *)
(* min(1, max(0, raw RK4 component)), per component, computed from the    *)
(* state stored at day ix; so every stored component of days 1..n lies in *)
(* [0,1], and step ix + 1 starts from the clamped value, not the raw one. *)
Clamped01(v) == IF v < 0 THEN 0 ELSE IF v > Unit THEN Unit ELSE v

C9_ClampedStore ==
    /\ (pc \in LoopPcs \cup {"returned"} =>
            \A c \in Series : \A k \in 1..ix : state[c][k] >= 0 /\ state[c][k] <= Unit)
    /\ (pc \in {"loop", "returned"} /\ ix > 0 =>
            /\ x = << state.s[ix - 1], state.e[ix - 1], state.i[ix - 1], state.r[ix - 1] >>
            /\ state.s[ix] = Clamped01(new[1])
            /\ state.e[ix] = Clamped01(new[2])
            /\ state.i[ix] = Clamped01(new[3])
            /\ state.r[ix] = Clamped01(new[4]))
    /\ (pc \in StagePcs =>
            x = << state.s[ix], state.e[ix], state.i[ix], state.r[ix] >>)

\* A raw RK4 susceptible value below 0 has been stored as 0 and the next
\* step has started from it.
C9_Witness ==
    /\ pc = "k2" /\ ix > 0
    /\ new[1] < 0
    /\ state.s[ix] = 0 /\ x[1] = 0

-----------------------------------------------------------------------------
(* C10: for valid inputs one call to solve terminates after exactly n RK4 *)
(* steps of exactly four derivative evaluations each (4n in all), and     *)
(* then returns.                                                           *)
StageOffset ==
    CASE pc = "k2" -> 1 [] pc = "k3" -> 2 [] pc = "k4" -> 3 [] pc = "combine" -> 4
      [] OTHER -> 0

C10_ExactlyNSteps ==
    /\ [](pc = "returned" => nSteps = args.n /\ nDeriv = 4 * args.n)
    /\ [](pc \in LoopPcs => nDeriv = 4 * nSteps + StageOffset)
    /\ (ValidInputs(args) ~> pc = "returned")

\* A call of the largest length has returned.
C10_Witness ==
    /\ pc = "returned"
    /\ args.n = MaxN
    /\ nSteps = MaxN /\ nDeriv = 4 * MaxN

-----------------------------------------------------------------------------
-----------------------------------------------------------------------------
(* C12: solve is deterministic: a call returns the same s, e, i, r and     *)
(* ymax as every earlier call of the same solve with the same inputs,      *)
(* whatever calls were made before or between them.                        *)
C12_Deterministic ==
    LET ended == IF Ended(Locals)
                 THEN Append(results, [version |-> version, args |-> args,
                                       error |-> error, output |-> output])
                 ELSE results
    IN  \A j, k \in DOMAIN ended :
            (ended[j].version = ended[k].version /\ ended[j].args = ended[k].args)
                => (ended[j].output = ended[k].output /\ ended[j].error = ended[k].error)

\* The third call repeats the first after a different call in between, and
\* has returned a two-day trajectory.
C12_Witness ==
    /\ pc = "returned" /\ args.n = 2
    /\ Len(results) = 2
    /\ results[1].version = version /\ results[1].args = args
    /\ results[2].args # args /\ results[2].output # <<>>

-----------------------------------------------------------------------------
(* C13: two calls of solve in flight at once share no mutable state: under *)
(* any interleaving of their steps, the days each call has written so far  *)
(* and what each call returns or raises are those of the same call run     *)
(* alone.                                                                  *)
C13_Isolated ==
    \A c \in {Locals, other} :
        /\ c.pc \in LoopPcs \cup {"returned"} =>
              \A q \in Series : \A k \in 0..c.ix :
                  c.state[q][k] = trajectory(c.version, c.args)[q][k]
        /\ Ended(c) =>
              [error |-> c.error, output |-> c.output] = solveAlone(c.version, c.args)

\* Both calls, with different arguments, are in the middle of their second
\* RK4 step: each completed its first step while the other was in flight.
C13_Witness ==
    /\ pc \in StagePcs /\ other.pc \in StagePcs
    /\ ix = 1 /\ other.ix = 1
    /\ args # other.args

-----------------------------------------------------------------------------
(* C14: with S0 = 1 and vaccination_rate = 0 the exposed and infectious    *)
(* values are 0 at day 0, every RK4 step returns s = 1, e = 0, i = 0,      *)
(* r = 0 again, and the returned infectious series is exactly 0 on every   *)
(* day 0..n.                                                               *)
C14_NoSeedNoEpidemic ==
    (args.S0 = Unit /\ args.vaccination_rate = 0) =>
        /\ pc \in LoopPcs \cup {"returned"} =>
              \A k \in 0..ix :
                  /\ state.s[k] = Unit /\ state.e[k] = 0
                  /\ state.i[k] = 0 /\ state.r[k] = 0
        /\ pc = "store" => new = <<Unit, 0, 0, 0>>
        /\ pc = "returned" =>
              \A k \in 0..args.n : output.i[k].y = 0 /\ output.e[k].y = 0

\* A fully susceptible, unvaccinated population has been simulated for MaxN
\* days by the class-based solve and its last infectious value is 0.
C14_Witness ==
    /\ pc = "returned" /\ version = "class"
    /\ args.S0 = Unit /\ args.vaccination_rate = 0 /\ args.n = MaxN
    /\ args.R0 = 3 * Unit
    /\ output.i[MaxN].y = 0 /\ output.s[MaxN].y = 100 * Unit

-----------------------------------------------------------------------------
(* C15: with death_onset = 0 and vaccination_rate = 0 the sum s + e + i +  *)
(* r of every stored day stays within the integration tolerance (here one  *)
(* percent) of 1.                                                          *)
(* Fails: with short latent and infectious periods the RK4 step leaves     *)
(* [0, 1]; the four values are clamped one by one and their sum moves far  *)
(* from 1.                                                                 *)
IntegrationTolerance == Unit \div 100

Sum(k) == state.s[k] + state.e[k] + state.i[k] + state.r[k]

C15_PopulationConserved ==
    (args.death_onset = 0 /\ args.vaccination_rate = 0
        /\ pc \in LoopPcs \cup {"returned"}) =>
        \A k \in 0..ix :
            /\ Sum(k) - Unit <= IntegrationTolerance
            /\ Unit - Sum(k) <= IntegrationTolerance

-----------------------------------------------------------------------------
(* C16: alpha is 1 / death_onset when death_onset > 0 and exactly 0 when   *)
(* death_onset = 0 (nothing is divided by zero); with death_onset = 0 the  *)
(* infectious compartment loses only to recovery and natural death:        *)
(* di = sigma e - gamma i - mu i.                                          *)
C16_DiseaseDeathRate ==
    (pc \in LoopPcs \cup {"returned"}) =>
        /\ params.alpha = IF args.death_onset > 0
                          THEN (Unit * Unit) \div args.death_onset
                          ELSE 0
        /\ (args.death_onset = 0 /\ pc \in StagePcs \ {"k1"}) =>
              k1.di = Mul(params.sigma, x[2]) - Mul(params.gamma, x[3])
                          - Mul(params.mu, x[3])

\* The class-based solve runs with death_onset = 0 and a non-empty
\* infectious compartment whose derivative has been evaluated.
C16_Witness ==
    /\ pc = "store" /\ version = "class"
    /\ args.death_onset = 0 /\ params.alpha = 0
    /\ x[3] > 0 /\ k1.di # 0

-----------------------------------------------------------------------------
(* C17: the derived beta round-trips to the requested R0:                  *)
(* beta sigma / ((sigma + mu)(gamma + mu + alpha)) equals the R0 passed    *)
(* in, up to the rounding of the number representation.                    *)
RoundTripTolerance == Unit \div 1000

RoundTrip(par) ==
    Div(Mul(par.beta, par.sigma), Mul(par.sigma + par.mu, par.gamma + par.mu + par.alpha))

C17_BetaRoundTrip ==
    (pc \in LoopPcs \cup {"returned"}) =>
        /\ RoundTrip(params) - args.R0 <= RoundTripTolerance
        /\ args.R0 - RoundTrip(params) <= RoundTripTolerance

\* Rate constants derived for R0 = 3 with disease death (alpha > 0), so
\* that all three factors of the relation differ from 1.
C17_Witness ==
    /\ pc = "loop" /\ ix = 0
    /\ args.R0 = 3 * Unit /\ params.alpha > 0 /\ params.mu > 0
    /\ params.beta > 2 * Unit

-----------------------------------------------------------------------------
(* C18: the derivatives at (s, e, i, r) are                                *)
(*   ds = -beta s i + omega r - mu s + mu (1 - p)                          *)
(*   de =  beta s i - sigma e - mu e                                       *)
(*   di =  sigma e - gamma i - (mu + alpha) i                              *)
(*   dr =  gamma i - omega r - mu r + mu p                                 *)
(* and so ds + de + di + dr = mu (1 - (s + e + i + r)) - alpha i, up to    *)
(* the rounding of the products.                                           *)
RoundingSlack == 6   \* one unit of rounding per product of the sum identity

Formulas(par, p, y) ==
    [ds |-> (0 - Mul(Mul(par.beta, y[1]), y[3])) + Mul(par.omega, y[4])
                - Mul(par.mu, y[1]) + Mul(par.mu, Unit - p),
     de |-> Mul(Mul(par.beta, y[1]), y[3]) - Mul(par.sigma, y[2]) - Mul(par.mu, y[2]),
     di |-> Mul(par.sigma, y[2]) - Mul(par.gamma, y[3]) - Mul(par.mu + par.alpha, y[3]),
     dr |-> Mul(par.gamma, y[3]) - Mul(par.omega, y[4]) - Mul(par.mu, y[4])
                + Mul(par.mu, p)]

NetFlow(par, y) ==
    Mul(par.mu, Unit - (y[1] + y[2] + y[3] + y[4])) - Mul(par.alpha, y[3])

SumIdentity(k, par, y) ==
    /\ (k.ds + k.de + k.di + k.dr) - NetFlow(par, y) <= RoundingSlack
    /\ NetFlow(par, y) - (k.ds + k.de + k.di + k.dr) <= RoundingSlack

C18_Derivatives ==
    /\ pc \in StagePcs \ {"k1"} =>
          /\ k1 = Formulas(params, args.vaccination_rate, x)
          /\ SumIdentity(k1, params, x)
    /\ pc \in {"combine", "store"} =>
          /\ k4 = Formulas(params, args.vaccination_rate, fullStage(x, timeStep, k3))
          /\ SumIdentity(k4, params, fullStage(x, timeStep, k3))

\* All four compartments are non-empty, disease death and vaccination are
\* on, and the four derivatives at that state are all non-zero.
C18_Witness ==
    /\ pc = "k2" /\ version = "class"
    /\ x[1] > 0 /\ x[2] > 0 /\ x[3] > 0 /\ x[4] > 0
    /\ params.alpha > 0 /\ args.vaccination_rate > 0
    /\ k1.ds # 0 /\ k1.de # 0 /\ k1.di # 0 /\ k1.dr # 0
    /\ k1.ds + k1.de + k1.di + k1.dr < 0

-----------------------------------------------------------------------------
(* C19: step(state, h) evaluates k1 at state, k2 at state + 0.5 h k1, k3   *)
(* at state + 0.5 h k2 and k4 at state + h k3, and returns state +         *)
(* (h / 6)(k1 + 2 k2 + 2 k3 + k4) componentwise, for every positive h.     *)
Component(k, j) ==
    CASE j = 1 -> k.ds [] j = 2 -> k.de [] j = 3 -> k.di [] j = 4 -> k.dr

C19_ClassicalRK4 ==
    pc = "stepped" =>
        LET h == args.h
            f(y) == Derivatives(version, params, args.vaccination_rate, y)
            ka == f(x)
            kb == f([j \in 1..4 |-> x[j] + Mul(Mul(Unit \div 2, h), Component(ka, j))])
            kc == f([j \in 1..4 |-> x[j] + Mul(Mul(Unit \div 2, h), Component(kb, j))])
            kd == f([j \in 1..4 |-> x[j] + Mul(h, Component(kc, j))])
        IN  /\ h > 0
            /\ \A j \in 1..4 :
                   new[j] = x[j] + Mul(h \div 6, Component(ka, j) + 2 * Component(kb, j)
                                                  + 2 * Component(kc, j) + Component(kd, j))

\* A step of two days has been taken from a state with infectious people.
C19_Witness ==
    /\ pc = "stepped" /\ args.h = 2 * Unit
    /\ x[3] > 0 /\ new # x /\ new[4] > x[4]

-----------------------------------------------------------------------------
(* C20: the trajectory is append-only: day 0 is written at initialisation, *)
(* day ix + 1 by iteration ix, in increasing order; a day already written  *)
(* never changes, the days not yet written still hold the 0 they were      *)
(* allocated with, and the value written for day ix + 1 is the clamped RK4 *)
(* step from day ix under the rate constants.                              *)
Day(st, k) == <<st.s[k], st.e[k], st.i[k], st.r[k]>>

C20_AppendOnly ==
    [][ /\ pc \in LoopPcs =>
              /\ \A k \in 0..ix : Day(state', k) = Day(state, k)
              /\ \A k \in (ix + 2)..args.n :
                     Day(state', k) = <<0, 0, 0, 0>> /\ Day(state, k) = <<0, 0, 0, 0>>
              /\ ix' \in {ix, ix + 1}
        /\ pc = "init" =>
              \A k \in 1..args.n : Day(state', k) = <<0, 0, 0, 0>>
        /\ (pc \in LoopPcs /\ pc # "store") => (state' = state /\ ix' = ix)
        /\ pc = "store" =>
              /\ ix' = ix + 1
              /\ Day(state, ix + 1) = <<0, 0, 0, 0>>
              /\ LET nw == step(version, params, args.vaccination_rate,
                                Day(state, ix), timeStep)
                 IN  Day(state', ix + 1) =
                         <<clamp(nw[1]), clamp(nw[2]), clamp(nw[3]), clamp(nw[4])>>
      ]_vars

\* All MaxN days have been written, with an epidemic under way: the
\* infectious value differs from day to day.
C20_Witness ==
    /\ pc = "loop" /\ ix = MaxN /\ args.n = MaxN
    /\ state.i[1] > 0 /\ state.i[2] > state.i[1] /\ state.i[MaxN] # state.i[2]

-----------------------------------------------------------------------------
(* C21: the six rate constants and the vaccination rate are computed once, *)
(* before the integration loop, and no RK4 step or derivative evaluation   *)
(* changes them; the step also leaves the state array it was given, and    *)
(* the stored days it was read from, unchanged.                            *)
C21_RatesAndInputFrozen ==
    [][ /\ params' # params => pc = "derive"
        /\ pc \in LoopPcs =>
              /\ params' = params /\ args' = args
              /\ params = IF version = "class" THEN SEIRParameters(args)
                          ELSE inlineParameters(args)
        /\ pc \in StagePcs => x' = x
        /\ pc \in StagePcs \ {"store"} => state' = state
      ]_vars

\* The last RK4 step of a run has returned a state that differs from the
\* one it was given, with the rate constants derived and in use.
C21_Witness ==
    /\ pc = "store" /\ ix = MaxN - 1
    /\ params.beta > 0 /\ params.alpha > 0
    /\ args.vaccination_rate > 0
    /\ x = <<state.s[ix], state.e[ix], state.i[ix], state.r[ix]>>
    /\ new # x

-----------------------------------------------------------------------------
(* C22: all other inputs held fixed, a larger R0 gives a strictly larger   *)
(* maximum of the returned infectious series, for R0 above the epidemic    *)
(* threshold (R0 times the initial susceptible proportion exceeds 1).      *)
(* Fails: with a latent period of half a day and an infectious period of   *)
(* one day the one-day RK4 step overshoots, values are clamped, and the    *)
(* peak for R0 = 5 is lower than the peak for R0 = 4.                      *)
Peak(series) ==
    CHOOSE m \in {series[k].y : k \in DOMAIN series} :
        \A k \in DOMAIN series : series[k].y <= m

SuperThreshold(a) == Mul(a.R0, a.S0 - a.vaccination_rate) > Unit

C22_PeakGrowsWithR0 ==
    (pc = "returned" /\ SuperThreshold(args)) =>
        \A b \in {a.R0 : a \in SensitivityInputs} :
            b > args.R0 =>
                Peak(solveAlone(version, [args EXCEPT !.R0 = b]).output.i)
                    > Peak(output.i)

-----------------------------------------------------------------------------
(* C23: the default scenario                                               *)

EarlyWindow == 100
PeakWindow == 150
DriftTolerance == 1

\* The series reaches its maximum on one of the given days.
PeakWithin(series, days) ==
    \E d \in days : \A k \in DOMAIN series : series[k].y <= series[d].y

\* The change of every compartment from day k - 1 to day k, in output units.
Drift(out, k) ==
    LET change(series) ==
            IF series[k].y >= series[k - 1].y
            THEN series[k].y - series[k - 1].y
            ELSE series[k - 1].y - series[k].y
    IN  {change(out.s), change(out.e), change(out.i), change(out.r)}

-----------------------------------------------------------------------------
(* C26: the two versions                                                   *)

Counterpart(v) == IF v = "class" THEN "inline" ELSE "class"

\* C26: the class-based solve and the inline solve are equivalent: for every
\* input tuple either both raise a validation error, or both return the same
\* s, e, i, r sequences and the same ymax.
\* Fails: for an n that is not a whole number the class-based version
\* returns floor(n) + 1 entries per series and the inline version one more,
\* with y = NaN.
C26_VersionsEquivalent ==
    pc \in {"returned", "threw"} =>
        LET twin == solveDays(Counterpart(version), args)
        IN  /\ (pc = "threw") <=> (twin.error # "")
            /\ pc = "returned" => output = twin.output

-----------------------------------------------------------------------------
(* C25: generateParams                                                     *)

\* C25: for step > 0 and start <= end, generateParams returns
\* round((end - start) / step) + 1 entries whose values are start + i step
\* rounded to two decimals; the first value is start, the last value is end,
\* the values are in increasing order, and an entry is marked default exactly
\* when its value equals defaultVal.
\* Fails: when end - start is no multiple of step the last value is not end.
C25_GenerateParams ==
    (pc = "generated" /\ args.step > 0 /\ args.start <= args.end) =>
        /\ Len(output) = RoundDiv(args.end - args.start, args.step) + 1
        /\ \A k \in 1..Len(output) :
              /\ output[k].value = roundToTwoDecimals(args.start + (k - 1) * args.step)
              /\ output[k].default <=> output[k].value \in args.defaultVal
        /\ output[1].value = args.start
        /\ output[Len(output)].value = args.end
        /\ \A k \in 1..(Len(output) - 1) : output[k].value < output[k + 1].value

-----------------------------------------------------------------------------
(* C27: the slider tables                                                  *)

\* C27: every combination of values that the param_vals tables offer to the
\* sliders passes the validation of solve, so that no slider position makes
\* a plot update fail with a validation error.
\* Fails: the documented table starts the immunity duration at 0, which the
\* validation rejects.
C27_TablesPassValidation == pc # "threw"

-----------------------------------------------------------------------------
(* C24, C28, C29, C30: the interactive plot                                *)

\* The parameters of the plot that have a control which could be set up.
KnownControls ==
    {id \in DOMAIN ctrls \cap DOMAIN plot.params :
        ctrls[id].type = "range" => ctrls[id].data # <<>>}

\* The value a control stands for.
ControlValue(c) == IF c.type = "range" THEN c.data[c.value + 1].value ELSE c.value

\* The range controls that cannot be initialised.
Uninitialisable ==
    {id \in DOMAIN ctrls \cap DOMAIN plot.params :
        /\ ctrls[id].type = "range"
        /\ ctrls[id].min = ctrls[id].max
        /\ id \notin DOMAIN PageTable}

\* The fields of the plot that hold what is rendered.
Rendering(p) ==
    <<p.x_range, p.y_range, p.x_axis, p.y_axis, p.x_line, p.x_ticks, p.y_line, p.y_ticks,
      p.series>>

\* C24: once the plot is set up, after any sequence of change and input
\* events on known controls and of resizes, plot.params holds the value of
\* every known control, the last call of solve was made with the current
\* plot.params, and if it succeeded the drawn S, E, I, R series are those it
\* returns for the current plot.params under the current size: every event
\* stores the control's value, then runs solve again and redraws.
C24_DrawnSeriesCurrent ==
    plot.phase = "ready" =>
        /\ \A id \in KnownControls : plot.params[id] = ControlValue(ctrls[id])
        /\ args = solveArguments(plot.params)
        /\ pc = "returned" =>
              /\ output = solveAlone(version, solveArguments(plot.params)).output
              /\ plot.series = seriesPaths(updateScales(plot), output)

C24_Witness ==
    /\ plot.phase = "ready"
    /\ pc = "returned"
    /\ plot.updates = MaxUpdates
    /\ plot.params.n_days = MaxN * One
    /\ plot.params.S0 = Half
    /\ plot.width = 800
    /\ Len(plot.series) = 4
    /\ plot.series[3].d[MaxN][2] < plot.series[3].d[0][2]

\* C28: when a range control cannot be initialised (its min equals its max
\* and the table has no entry for its id), an event on it changes no entry of
\* plot.params and triggers no plot update.
\* Fails: the class-based setter goes on to plot.update().
C28_UninitialisableControlIgnored ==
    [][\A id \in Uninitialisable :
          ctrls'[id] # ctrls[id] =>
              /\ plot'.params = plot.params
              /\ plot'.updates = plot.updates]_vars

\* C29: when solve raises during a plot update, the update stops before it
\* touches what is rendered: the scales, the axes and the old series paths
\* are left as they were.
C29_FailedUpdateKeepsRendering ==
    [][(plot'.updates = plot.updates + 1 /\ pc' = "threw") =>
          Rendering(plot') = Rendering(plot)]_vars

C29_Witness ==
    /\ pc = "threw"
    /\ plot.updates >= 2
    /\ plot.params.S0 > One
    /\ Len(plot.series) = 4
    /\ plot.x_range # NoScale

\* C30: after any number of successful updates the svg holds exactly four
\* series paths, for S, E, I and R in this order; before the first
\* successful update it holds none.
C30_FourSeriesPaths ==
    /\ plot.phase # "none" =>
          IF plot.x_range = NoScale THEN plot.series = <<>>
          ELSE /\ Len(plot.series) = 4
               /\ [k \in 1..4 |-> plot.series[k].class]
                      = <<"varS series", "varE series", "varI series", "varR series">>

C30_Witness ==
    /\ plot.updates = MaxUpdates
    /\ pc = "returned"
    /\ Len(plot.series) = 4
    /\ plot.series[1].class = "varS series"
    /\ plot.series[4].class = "varR series"

====
